---- MODULE Spec2Model ----
(***************************************************************************)
(* A model of the expression engine of altinn-app-frontend                 *)
(* (src/features/expressions/index.ts): the scanner evalExprInObj, the     *)
(* evaluator evalExpr / innerEvalExpr, the cast engine castValue with the  *)
(* ExprTypes table, and the ExprFunctions registry.                        *)
(*                                                                         *)
(* JavaScript values are tagged records [k, v]; a string is the sequence   *)
(* of its characters, so that toLowerCase, join, JSON.stringify and the    *)
(* two regular expressions of asNumber are computed, not assumed.          *)
(***************************************************************************)
EXTENDS Integers, Sequences, FiniteSets, TLC

VARIABLES pc, call, ret

vars == <<pc, call, ret>>

\* ------------------------------------------------------------------ values

Null == [k |-> "null", v |-> 0]

Undefined == [k |-> "undefined", v |-> 0]

Bool(b) == [k |-> "boolean", v |-> b]

\* The number m / 10^s, kept normalised (s = 0 or m not divisible by 10).
Num(m, s) == [k |-> "number", v |-> <<m, s>>]

IntNum(m) == Num(m, 0)

Str(cs) == [k |-> "string", v |-> cs]

Arr(items) == [k |-> "array", v |-> items]

\* A plain object: the sequence of its <<key, value>> entries in key order.
Obj(entries) == [k |-> "object", v |-> entries]

\* JavaScript's typeof
TypeOf(x) ==
    CASE x.k = "boolean" -> "boolean"
      [] x.k = "string" -> "string"
      [] x.k = "number" -> "number"
      [] x.k = "undefined" -> "undefined"
      [] OTHER -> "object"

\* Array.isArray
IsArray(x) == x.k = "array"

\* a === b on the values the engine compares (primitives, null, undefined)
StrictEq(a, b) == a.k = b.k /\ a.v = b.v

IsStr(x, cs) == x.k = "string" /\ x.v = cs

\* ----------------------------------------------------------------- strings

cNull == <<"n", "u", "l", "l">>

cTrue == <<"t", "r", "u", "e">>

cFalse == <<"f", "a", "l", "s", "e">>

cElse == <<"e", "l", "s", "e">>

cUndefined == <<"u", "n", "d", "e", "f", "i", "n", "e", "d">>

Uppers == <<"A", "B", "C", "D", "E", "F", "G", "H", "I", "J", "K", "L", "M",
            "N", "O", "P", "Q", "R", "S", "T", "U", "V", "W", "X", "Y", "Z">>

Lowers == <<"a", "b", "c", "d", "e", "f", "g", "h", "i", "j", "k", "l", "m",
            "n", "o", "p", "q", "r", "s", "t", "u", "v", "w", "x", "y", "z">>

LowerChar(c) ==
    IF \E i \in DOMAIN Uppers : Uppers[i] = c
    THEN Lowers[CHOOSE i \in DOMAIN Uppers : Uppers[i] = c]
    ELSE c

\* String.prototype.toLowerCase
toLowerCase(cs) == [i \in DOMAIN cs |-> LowerChar(cs[i])]

Digits == <<"0", "1", "2", "3", "4", "5", "6", "7", "8", "9">>

IsDigit(c) == \E i \in DOMAIN Digits : Digits[i] = c

DigitVal(c) == (CHOOSE i \in DOMAIN Digits : Digits[i] = c) - 1

AllDigits(cs) == Len(cs) > 0 /\ \A i \in DOMAIN cs : IsDigit(cs[i])

RECURSIVE DigitsVal(_)
DigitsVal(cs) ==
    IF cs = <<>> THEN 0
    ELSE 10 * DigitsVal(SubSeq(cs, 1, Len(cs) - 1)) + DigitVal(cs[Len(cs)])

RECURSIVE Pow10(_)
Pow10(n) == IF n = 0 THEN 1 ELSE 10 * Pow10(n - 1)

RECURSIVE Normalise(_, _)
Normalise(m, s) ==
    IF s > 0 /\ m % 10 = 0 THEN Normalise(m \div 10, s - 1) ELSE Num(m, s)

RECURSIVE NatChars(_)
NatChars(n) ==
    IF n < 10 THEN <<Digits[n + 1]>>
    ELSE NatChars(n \div 10) \o <<Digits[(n % 10) + 1]>>

RECURSIVE PadLeft(_, _)
PadLeft(cs, n) == IF Len(cs) >= n THEN cs ELSE PadLeft(<<"0">> \o cs, n)

\* JSON.stringify of a number or a boolean
JSONStringify(x) ==
    IF x.k = "boolean" THEN (IF x.v THEN cTrue ELSE cFalse)
    ELSE LET m == x.v[1]
             s == x.v[2]
             a == IF m < 0 THEN 0 - m ELSE m
             sign == IF m < 0 THEN <<"-">> ELSE <<>>
             ds == PadLeft(NatChars(a), s + 1)
         IN  IF s = 0 THEN sign \o ds
             ELSE sign \o SubSeq(ds, 1, Len(ds) - s) \o <<".">>
                       \o SubSeq(ds, Len(ds) - s + 1, Len(ds))

\* Array.prototype.join(''): null and undefined elements join as ''
RECURSIVE JoinEmpty(_)
JoinEmpty(xs) ==
    IF xs = <<>> THEN <<>>
    ELSE (IF Head(xs).k = "string" THEN Head(xs).v ELSE <<>>) \o JoinEmpty(Tail(xs))

\* The position of the first '.' of cs, or 0
DotAt(cs) ==
    IF \E i \in DOMAIN cs : cs[i] = "."
    THEN CHOOSE i \in DOMAIN cs : cs[i] = "." /\ \A j \in 1..(i - 1) : cs[j] # "."
    ELSE 0

Unsigned(cs) == IF Len(cs) > 0 /\ cs[1] = "-" THEN Tail(cs) ELSE cs

Negative(cs) == Len(cs) > 0 /\ cs[1] = "-"

\* /^-?\d+$/
MatchesInt(cs) == AllDigits(Unsigned(cs))

\* /^-?\d+\.\d+$/
MatchesDecimal(cs) ==
    LET u == Unsigned(cs)
        d == DotAt(u)
    IN  /\ d > 1
        /\ d < Len(u)
        /\ AllDigits(SubSeq(u, 1, d - 1))
        /\ AllDigits(SubSeq(u, d + 1, Len(u)))

asNumber(cs) ==
    IF MatchesInt(cs)
    THEN LET a == DigitsVal(Unsigned(cs))
         IN  IntNum(IF Negative(cs) THEN 0 - a ELSE a)
    ELSE IF MatchesDecimal(cs)
    THEN LET u == Unsigned(cs)
             d == DotAt(u)
             frac == SubSeq(u, d + 1, Len(u))
             a == DigitsVal(SubSeq(u, 1, d - 1)) * Pow10(Len(frac)) + DigitsVal(frac)
         IN  Normalise(IF Negative(cs) THEN 0 - a ELSE a, Len(frac))
    ELSE Undefined

\* a < b on two numbers
NumLess(a, b) == a.v[1] * Pow10(b.v[2]) < b.v[1] * Pow10(a.v[2])

\* ------------------------------------------------ results, errors, contexts

Ok(v) == [t |-> "ok", v |-> v]

Throw(e, ctx) == [t |-> "throw", e |-> e, context |-> ctx]

\* The subclasses of ExprRuntimeError: what `err instanceof ExprRuntimeError`
\* accepts. A TypeError raised by the JavaScript runtime is not one of them.
ExprRuntimeError ==
    {"LookupNotFound", "NodeNotFound", "UnexpectedType", "UnknownSourceType",
     "UnknownTargetType"}

\* The value of `this` in a function called as a plain function of an
\* ECMAScript module (strict mode): undefined, so no context at all.
NoContext == [present |-> FALSE]

withBlankPath(expr, node, dataSources) ==
    [present |-> TRUE, expr |-> expr, path |-> <<>>, node |-> node,
     dataSources |-> dataSources]

withPath(context, path) == [context EXCEPT !.path = path]

\* The i-th element of a JavaScript array (0-based); undefined when absent.
At(xs, i) == IF i + 1 \in DOMAIN xs THEN xs[i + 1] ELSE Undefined

RECURSIVE ExprAt(_, _)
ExprAt(expr, path) ==
    IF path = <<>> THEN expr ELSE ExprAt(At(expr.v, Head(path)), Tail(path))

\* ExprContext.getExpr: the sub-expression the context's path points at
getExpr(context) == ExprAt(context.expr, context.path)

\* -------------------------------------------------------------- cast engine

isLikeNull(arg) == IsStr(arg, cNull) \/ arg.k = "null" \/ arg.k = "undefined"

valueToBaseValueType(value) == TypeOf(value)

ExprTypes ==
    [boolean |-> [nullable |-> TRUE, accepts |-> {"boolean", "string", "number"}],
     string |-> [nullable |-> TRUE, accepts |-> {"boolean", "string", "number"}],
     number |-> [nullable |-> TRUE, accepts |-> {"boolean", "string", "number"}]]

\* ExprTypes.boolean.impl
BooleanImpl(this, arg) ==
    IF TypeOf(arg) = "boolean" THEN Ok(arg)
    ELSE IF IsStr(arg, cTrue) THEN Ok(Bool(TRUE))
    ELSE IF IsStr(arg, cFalse) THEN Ok(Bool(FALSE))
    ELSE LET num == IF TypeOf(arg) = "string" THEN asNumber(arg.v) ELSE arg
         IN  IF TypeOf(arg) \in {"string", "number"} /\ num.k = "number"
                /\ num = IntNum(1)
             THEN Ok(Bool(TRUE))
             ELSE IF TypeOf(arg) \in {"string", "number"} /\ num.k = "number"
                     /\ num = IntNum(0)
             THEN Ok(Bool(FALSE))
             ELSE Throw("UnexpectedType", this)

\* ExprTypes.string.impl
StringImpl(this, arg) ==
    IF TypeOf(arg) \in {"number", "boolean"} THEN Ok(Str(JSONStringify(arg)))
    ELSE IF toLowerCase(arg.v) = cNull THEN Ok(Null)
    ELSE IF toLowerCase(arg.v) = cFalse THEN Ok(Str(cFalse))
    ELSE IF toLowerCase(arg.v) = cTrue THEN Ok(Str(cTrue))
    ELSE Ok(arg)

\* ExprTypes.number.impl
NumberImpl(this, arg) ==
    IF TypeOf(arg) = "number" THEN Ok(arg)
    ELSE IF TypeOf(arg) = "string" /\ asNumber(arg.v).k = "number"
    THEN Ok(asNumber(arg.v))
    ELSE Throw("UnexpectedType", this)

\* castValue: both of its own throws pass `this`, which castValue (a plain
\* module function, called as castValue(...)) does not have.
castValue(value, toType, context) ==
    IF toType \notin DOMAIN ExprTypes THEN Throw("UnknownTargetType", NoContext)
    ELSE IF ExprTypes[toType].nullable /\ isLikeNull(value) THEN Ok(Null)
    ELSE IF valueToBaseValueType(value) \notin ExprTypes[toType].accepts
    THEN Throw("UnknownSourceType", NoContext)
    ELSE CASE toType = "boolean" -> BooleanImpl(context, value)
           [] toType = "string" -> StringImpl(context, value)
           [] toType = "number" -> NumberImpl(context, value)

\* ------------------------------------------------------ function registry

nEquals == <<"e", "q", "u", "a", "l", "s">>

nNotEquals == <<"n", "o", "t", "E", "q", "u", "a", "l", "s">>

nGreaterThan == <<"g", "r", "e", "a", "t", "e", "r", "T", "h", "a", "n">>

nGreaterThanEq == <<"g", "r", "e", "a", "t", "e", "r", "T", "h", "a", "n", "E", "q">>

nLessThan == <<"l", "e", "s", "s", "T", "h", "a", "n">>

nLessThanEq == <<"l", "e", "s", "s", "T", "h", "a", "n", "E", "q">>

nConcat == <<"c", "o", "n", "c", "a", "t">>

nAnd == <<"a", "n", "d">>

nOr == <<"o", "r">>

nIf == <<"i", "f">>

nInstanceContext == <<"i", "n", "s", "t", "a", "n", "c", "e", "C", "o", "n", "t", "e", "x", "t">>

nFrontendSettings == <<"f", "r", "o", "n", "t", "e", "n", "d", "S", "e", "t", "t", "i", "n", "g", "s">>

nComponent == <<"c", "o", "m", "p", "o", "n", "e", "n", "t">>

nDataModel == <<"d", "a", "t", "a", "M", "o", "d", "e", "l">>

\* One entry of ExprFunctions (impl is FuncImpl below)
FuncDef(name, args, returns, lastArgSpreads, neverCastArguments, castReturnValue) ==
    [name |-> name, args |-> args, returns |-> returns, lastArgSpreads |-> lastArgSpreads,
     neverCastArguments |-> neverCastArguments, castReturnValue |-> castReturnValue]

ExprFunctions ==
    (nEquals :> FuncDef("equals", <<"string", "string">>, "boolean", FALSE, {}, TRUE))
    @@ (nNotEquals :> FuncDef("notEquals", <<"string", "string">>, "boolean", FALSE, {}, TRUE))
    @@ (nGreaterThan :> FuncDef("greaterThan", <<"number", "number">>, "boolean", FALSE, {}, TRUE))
    @@ (nGreaterThanEq :> FuncDef("greaterThanEq", <<"number", "number">>, "boolean", FALSE, {}, TRUE))
    @@ (nLessThan :> FuncDef("lessThan", <<"number", "number">>, "boolean", FALSE, {}, TRUE))
    @@ (nLessThanEq :> FuncDef("lessThanEq", <<"number", "number">>, "boolean", FALSE, {}, TRUE))
    @@ (nConcat :> FuncDef("concat", <<"string">>, "string", TRUE, {}, TRUE))
    @@ (nAnd :> FuncDef("and", <<"boolean">>, "boolean", TRUE, {}, TRUE))
    @@ (nOr :> FuncDef("or", <<"boolean">>, "boolean", TRUE, {}, TRUE))
    @@ (nIf :> FuncDef("if", <<"string", "string">>, "string", TRUE, {1, 3}, FALSE))
    @@ (nInstanceContext :> FuncDef("instanceContext", <<"string">>, "string", FALSE, {}, TRUE))
    @@ (nFrontendSettings :> FuncDef("frontendSettings", <<"string">>, "string", FALSE, {}, TRUE))
    @@ (nComponent :> FuncDef("component", <<"string">>, "string", FALSE, {}, TRUE))
    @@ (nDataModel :> FuncDef("dataModel", <<"string">>, "string", FALSE, {}, TRUE))

\* `func in ExprFunctions`, for the first element of an expression
IsFunction(func) == func.k = "string" /\ func.v \in DOMAIN ExprFunctions

nInstanceId == <<"i", "n", "s", "t", "a", "n", "c", "e", "I", "d">>

nAppId == <<"a", "p", "p", "I", "d">>

nInstanceOwnerPartyId ==
    <<"i", "n", "s", "t", "a", "n", "c", "e", "O", "w", "n", "e", "r", "P", "a", "r", "t",
      "y", "I", "d">>

instanceContextKeys == {nInstanceId, nAppId, nInstanceOwnerPartyId}

\* The property name a value is converted to in obj[value]
PropKey(key) ==
    CASE key.k = "string" -> key.v
      [] key.k = "null" -> cNull
      [] key.k = "undefined" -> cUndefined
      [] OTHER -> JSONStringify(key)

\* obj[key] on a record of the data sources (a function from names to values)
Lookup(map, key) == IF PropKey(key) \in DOMAIN map THEN map[PropKey(key)] ELSE Undefined

\* JavaScript truthiness of a value
Truthy(x) ==
    CASE x.k = "boolean" -> x.v
      [] x.k = "string" -> x.v # <<>>
      [] x.k = "number" -> x.v[1] # 0
      [] x.k \in {"null", "undefined"} -> FALSE
      [] OTHER -> TRUE

argTypeAt(func, argIndex) ==
    LET possibleArgs == ExprFunctions[func].args
    IN  IF argIndex + 1 \in DOMAIN possibleArgs THEN possibleArgs[argIndex + 1]
        ELSE IF ExprFunctions[func].lastArgSpreads THEN possibleArgs[Len(possibleArgs)]
        ELSE "undefined"

\* arg1 > arg2 and its three siblings: a comparison with undefined is false
Compare(op, arg1, arg2) ==
    IF arg1.k = "null" \/ arg2.k = "null" THEN Bool(FALSE)
    ELSE IF arg1.k # "number" \/ arg2.k # "number" THEN Bool(FALSE)
    ELSE CASE op = "greaterThan" -> Bool(NumLess(arg2, arg1))
           [] op = "greaterThanEq" -> Bool(~NumLess(arg1, arg2))
           [] op = "lessThan" -> Bool(NumLess(arg1, arg2))
           [] op = "lessThanEq" -> Bool(~NumLess(arg2, arg1))

RECURSIVE ReduceAnd(_, _)
ReduceAnd(prev, args) ==
    IF args = <<>> THEN prev ELSE ReduceAnd(Truthy(Bool(prev)) /\ Truthy(Head(args)), Tail(args))

RECURSIVE ReduceOr(_, _)
ReduceOr(prev, args) ==
    IF args = <<>> THEN prev ELSE ReduceOr(Truthy(Bool(prev)) \/ Truthy(Head(args)), Tail(args))

\* Array.prototype.join(): the default separator is ','
RECURSIVE JoinComma(_)
JoinComma(xs) ==
    IF xs = <<>> THEN <<>>
    ELSE (IF Head(xs).k = "string" THEN Head(xs).v ELSE <<>>)
         \o (IF Len(xs) > 1 THEN <<",">> ELSE <<>>) \o JoinComma(Tail(xs))

\* ExprFunctions.concat.impl with the separator argument of join left out
ConcatImplDefaultSeparator(args) == Str(JoinComma(args))

\* ExprFunctions.concat.impl
ConcatImpl(args) == Str(JoinEmpty(args))

\* addError of the validation module: one more error recorded in the context
addError(errors, path, message) == Append(errors, [path |-> path, message |-> message])

\* ExprFunctions.if.validator looking for "else" at index 1, not 2
IfValidatorElseAt1(rawArgs, errors, path) ==
    IF Len(rawArgs) = 2 THEN errors
    ELSE LET e1 == IF Len(rawArgs) > 2 /\ ~IsStr(At(rawArgs, 1), cElse)
                   THEN addError(errors, Append(path, 2), "Expected third argument to be \"else\"")
                   ELSE errors
         IN  IF Len(rawArgs) = 4 THEN e1
             ELSE addError(e1, path, "Expected either 2 arguments (if) or 4 (if + else), got %s")

\* ExprFunctions.if.validator: the errors in the context after it has run
IfValidator(rawArgs, errors, path) ==
    IF Len(rawArgs) = 2 THEN errors
    ELSE LET e1 == IF Len(rawArgs) > 2 /\ ~IsStr(At(rawArgs, 2), cElse)
                   THEN addError(errors, Append(path, 2), "Expected third argument to be \"else\"")
                   ELSE errors
         IN  IF Len(rawArgs) = 4 THEN e1
             ELSE addError(e1, path, "Expected either 2 arguments (if) or 4 (if + else), got %s")

\* ExprFunctions.if.impl taking the else value from index 2, not 3
IfImplElseAt2(args) ==
    IF IsStr(At(args, 0), cTrue) THEN At(args, 1)
    ELSE IF Len(args) = 4 THEN args[3] ELSE Null

\* ExprFunctions.if.impl
IfImpl(args) ==
    IF IsStr(At(args, 0), cTrue) THEN At(args, 1)
    ELSE IF Len(args) = 4 THEN args[4] ELSE Null

\* ExprFunctions.instanceContext.impl
InstanceContextImpl(this, key) ==
    IF ~(key.k = "string" /\ key.v \in instanceContextKeys)
    THEN Throw("LookupNotFound", this)
    ELSE IF this.dataSources.instanceContext.k = "null" THEN Throw("TypeError", NoContext)
    ELSE Ok(Lookup(this.dataSources.instanceContext.v, key))

\* ExprFunctions.frontendSettings.impl
FrontendSettingsImpl(this, key) ==
    IF this.dataSources.applicationSettings.k = "null" THEN Throw("TypeError", NoContext)
    ELSE Ok(Lookup(this.dataSources.applicationSettings.v, key))

\* ExprContext.failWithoutNode
failWithoutNode(this) ==
    IF this.node.kind = "NodeNotFoundWithoutContext" THEN Throw("NodeNotFound", this)
    ELSE Ok(this.node)

\* LayoutNode.closest: the nearest component of the node's chain (itself, then
\* its ancestors) that the matcher accepts, as an index into the chain, or 0
closest(node, id) ==
    LET hits == {i \in DOMAIN node.chain :
                    StrictEq(node.chain[i].id, id) \/ StrictEq(node.chain[i].baseComponentId, id)}
    IN  IF hits = {} THEN 0 ELSE CHOOSE i \in hits : \A j \in hits : i <= j

\* ExprFunctions.component.impl
ComponentImpl(this, id) ==
    LET n == failWithoutNode(this)
    IN  IF n.t = "throw" THEN n
        ELSE LET c == closest(n.v, id)
             IN  IF c # 0 /\ Truthy(n.v.chain[c].simpleBinding)
                 THEN Ok(Lookup(this.dataSources.formData, n.v.chain[c].simpleBinding))
                 ELSE Throw("LookupNotFound", this)

\* LayoutNode.transposeDataModel: the path with the node's row indexes put in
transposeDataModel(node, path) ==
    IF PropKey(path) \in DOMAIN node.transpose THEN Str(node.transpose[PropKey(path)]) ELSE path

\* x || null
OrNull(x) == IF Truthy(x) THEN x ELSE Null

\* ExprFunctions.dataModel.impl
DataModelImpl(this, path) ==
    LET n == failWithoutNode(this)
    IN  IF n.t = "throw" THEN n
        ELSE IF n.v.kind = "LayoutNode"
        THEN Ok(OrNull(Lookup(this.dataSources.formData, transposeDataModel(n.v, path))))
        ELSE Ok(OrNull(Lookup(this.dataSources.formData, path)))

\* ExprFunctions[func].impl.apply(this, args)
FuncImpl(name, this, args) ==
    CASE name = "equals" -> Ok(Bool(StrictEq(At(args, 0), At(args, 1))))
      [] name = "notEquals" -> Ok(Bool(~StrictEq(At(args, 0), At(args, 1))))
      [] name \in {"greaterThan", "greaterThanEq", "lessThan", "lessThanEq"} ->
            Ok(Compare(name, At(args, 0), At(args, 1)))
      [] name = "concat" -> Ok(ConcatImpl(args))
      [] name = "and" -> Ok(Bool(ReduceAnd(TRUE, args)))
      [] name = "or" -> Ok(Bool(ReduceOr(FALSE, args)))
      [] name = "if" -> Ok(IfImpl(args))
      [] name = "instanceContext" -> InstanceContextImpl(this, At(args, 0))
      [] name = "frontendSettings" -> FrontendSettingsImpl(this, At(args, 0))
      [] name = "component" -> ComponentImpl(this, At(args, 0))
      [] name = "dataModel" -> DataModelImpl(this, At(args, 0))

\* --------------------------------------------------------------- evaluator

\* new Set(ExprFunctions[func].neverCastArguments || []) with the condition of
\* `if` (index 0) added to it: what exempting the condition too would do.
neverCastIndexesWithCondition(func) ==
    IF func = nIf THEN {0, 1, 3} ELSE ExprFunctions[func].neverCastArguments

\* new Set(ExprFunctions[func].neverCastArguments || [])
neverCastIndexes(func) == ExprFunctions[func].neverCastArguments

\* The tail of innerEvalExpr with the castReturnValue test dropped: the
\* return value is handed back as the implementation produced it.
finishCallNoCast(func, returnValue, context) == returnValue

\* The tail of innerEvalExpr: the cast of the implementation's return value
finishCall(func, returnValue, context) ==
    IF returnValue.t = "throw" THEN returnValue
    ELSE IF ExprFunctions[func].castReturnValue = FALSE THEN returnValue
    ELSE castValue(returnValue.v, ExprFunctions[func].returns, context)

RECURSIVE innerEvalExpr(_)
RECURSIVE computedArgsFrom(_, _, _, _, _)

\* args.map(...) of innerEvalExpr from index idx on, `acc` the elements mapped
\* so far; the first throw ends the map.
computedArgsFrom(context, func, args, idx, acc) ==
    IF idx >= Len(args) THEN Ok(acc)
    ELSE LET realIdx == idx + 1
             arg == At(args, idx)
             argContext == withPath(context, Append(context.path, realIdx))
             argValue == IF IsArray(arg) THEN innerEvalExpr(argContext) ELSE Ok(arg)
         IN  IF argValue.t = "throw" THEN argValue
             ELSE LET c == IF idx \in neverCastIndexes(func) THEN argValue
                           ELSE castValue(argValue.v, argTypeAt(func, idx), argContext)
                  IN  IF c.t = "throw" THEN c
                      ELSE computedArgsFrom(context, func, args, idx + 1, Append(acc, c.v))

innerEvalExpr(context) ==
    LET e == getExpr(context).v
        func == At(e, 0)
    IN  \* ExprFunctions[func].returns, when ExprFunctions[func] is undefined
        IF ~IsFunction(func) THEN Throw("TypeError", NoContext)
        ELSE LET computedArgs == computedArgsFrom(context, func.v, Tail(e), 0, <<>>)
             IN  IF computedArgs.t = "throw" THEN computedArgs
                 ELSE finishCall(func.v,
                                 FuncImpl(ExprFunctions[func.v].name, context, computedArgs.v),
                                 context)

\* What evalExpr hands back: a returned value (and whether ctx.trace logged
\* an error on the way) or a thrown error.
Returned(v, traced) == [t |-> "ok", v |-> v, traced |-> traced]

NoOptions == [hasDefault |-> FALSE, defaultValue |-> Undefined]

WithDefault(d) == [hasDefault |-> TRUE, defaultValue |-> d]

\* evalExpr whose catch block recovers from every error, ExprRuntimeError or not
evalExprCatchAll(expr, node, dataSources, options) ==
    LET r == innerEvalExpr(withBlankPath(expr, node, dataSources))
    IN  IF r.t = "ok"
        THEN IF r.v.k \in {"null", "undefined"} /\ options.hasDefault
             THEN Returned(options.defaultValue, FALSE)
             ELSE Returned(r.v, FALSE)
        ELSE IF options.hasDefault THEN Returned(options.defaultValue, TRUE)
        ELSE Throw("Error", r.context)

evalExpr(expr, node, dataSources, options) ==
    LET r == innerEvalExpr(withBlankPath(expr, node, dataSources))
    IN  IF r.t = "ok"
        THEN IF r.v.k \in {"null", "undefined"} /\ options.hasDefault
             THEN Returned(options.defaultValue, FALSE)
             ELSE Returned(r.v, FALSE)
        ELSE IF r.e \notin ExprRuntimeError THEN r
        \* ctx = err.context; ctx.trace(...) and ctx.prettyError(...) on undefined
        ELSE IF ~r.context.present THEN Throw("TypeError", NoContext)
        ELSE IF options.hasDefault THEN Returned(options.defaultValue, TRUE)
        ELSE Throw("Error", r.context)

\* ------------------------------------------------------------------ inputs

MaxArgs == 2

MaxDepth == 1

\* All sequences over S of length at most n
SeqsUpTo(S, n) == UNION {[1..k -> S] : k \in 0..n}

nNope == <<"n", "o", "p", "e">>

cOne == <<"1">>

cAppIdRow == <<"a", "p", "p", "I", "d", "[", "0", "]">>

\* The literals of the generated expressions: a key every data source knows,
\* a numeric string, a number and a (non-scalar) object.
Lits == {Str(nAppId), Str(cOne), IntNum(0), Obj(<<>>)}

FnPool == DOMAIN ExprFunctions \cup {nNope}

WrapFns == {nConcat, nAnd, nLessThan, nDataModel}

Level0 == {Arr(<<Str(f)>> \o args) : f \in FnPool, args \in SeqsUpTo(Lits, MaxArgs)}

\* e as the only argument of a call of the last of fs, that call the only
\* argument of a call of the one before, and so on
RECURSIVE Wrapped(_, _)
Wrapped(fs, e) ==
    IF fs = <<>> THEN e ELSE Arr(<<Str(Head(fs)), Wrapped(Tail(fs), e)>>)

FullDataSources ==
    [instanceContext |->
        Obj((nInstanceId :> Str(<<"1", "3", "3", "7", "/", "u", "u", "i", "d">>))
            @@ (nAppId :> Str(<<"t", "d", "d", "/", "a", "p", "p">>))
            @@ (nInstanceOwnerPartyId :> Str(<<"1", "3", "3", "7">>))),
     applicationSettings |-> Obj((nAppId :> Str(<<"T", "r", "u", "e">>))),
     formData |-> (nAppId :> Str(<<>>)) @@ (cAppIdRow :> Str(cOne))]

\* Before the instance and the settings are loaded both are null
EmptyDataSources ==
    [instanceContext |-> Null, applicationSettings |-> Null,
     formData |-> (nAppId :> Str(cOne)) @@ (cAppIdRow :> Str(cOne))]

TheComponent == [id |-> Str(nAppId), baseComponentId |-> Undefined, simpleBinding |-> Str(cAppIdRow)]

ALayoutNode ==
    [kind |-> "LayoutNode", chain |-> <<TheComponent>>, transpose |-> (nAppId :> cAppIdRow)]

ALayoutRootNode ==
    [kind |-> "LayoutRootNode", chain |-> <<[TheComponent EXCEPT !.simpleBinding = Undefined]>>,
     transpose |-> (nAppId :> nAppId)]

ANodeNotFound ==
    [kind |-> "NodeNotFoundWithoutContext", chain |-> <<TheComponent>>,
     transpose |-> (nAppId :> nAppId)]

Envs ==
    {[node |-> ALayoutNode, dataSources |-> FullDataSources],
     [node |-> ANodeNotFound, dataSources |-> FullDataSources],
     [node |-> ALayoutRootNode, dataSources |-> EmptyDataSources]}

OptionsPool == {NoOptions, WithDefault(Bool(FALSE))}

EvalCall(e, env, o) ==
    [expr |-> e, node |-> env.node, dataSources |-> env.dataSources, options |-> o]

NotRun == [t |-> "none"]

\* ------------------------------------------------- specification: evalExpr

InitEval ==
    /\ pc = "ready"
    /\ \E fs \in SeqsUpTo(WrapFns, MaxDepth), e \in Level0, env \in Envs, o \in OptionsPool :
            call = EvalCall(Wrapped(fs, e), env, o)
    /\ ret = NotRun

EvalExpr ==
    /\ pc = "ready"
    /\ pc' = "done"
    /\ ret' = evalExpr(call.expr, call.node, call.dataSources, call.options)
    /\ UNCHANGED call

NextEval == EvalExpr

SpecEval == InitEval /\ [][NextEval]_vars

\* ------------------------------------------------ claims on evalExpr (SpecEval)

\* What innerEvalExpr did in the call of this state, before evalExpr's recovery
Inner == innerEvalExpr(withBlankPath(call.expr, call.node, call.dataSources))

HeadOf(expr) == At(expr.v, 0)

\* The evaluation of expr comes to a call of a function that is not in
\* ExprFunctions: at its head, or at the head of its first argument.
RECURSIVE EvaluatesUnknownFunction(_)
EvaluatesUnknownFunction(expr) ==
    \/ ~IsFunction(HeadOf(expr))
    \/ /\ Len(expr.v) >= 2
       /\ IsArray(expr.v[2])
       /\ EvaluatesUnknownFunction(expr.v[2])

\* C1: an ExprRuntimeError raised during the evaluation is logged and replaced
\* by the defaultValue when one was supplied, is re-raised as a fatal Error built
\* from the failing context when none was, and any other error propagates as is.
C1_RecoveryRule ==
    (pc = "done" /\ Inner.t = "throw") =>
        IF Inner.e \in ExprRuntimeError
        THEN IF call.options.hasDefault
             THEN ret = Returned(call.options.defaultValue, TRUE)
             ELSE ret.t = "throw" /\ ret.e = "Error" /\ ret.context.present
        ELSE ret = Inner

\* C2: every ExprRuntimeError raised during an evaluation carries the context
\* of the failure point.
C2_ErrorsCarryContext ==
    (pc = "done" /\ Inner.t = "throw" /\ Inner.e \in ExprRuntimeError) =>
        Inner.context.present

\* C3 as stated: a call of a function that is not in the registry raises
\* UnknownFunction, an ExprRuntimeError, so evalExpr returns the defaultValue
\* when it has one.
C3_UnknownFunctionRecovered ==
    (pc = "done" /\ EvaluatesUnknownFunction(call.expr)) =>
        /\ Inner.t = "throw"
        /\ Inner.e = "UnknownFunction"
        /\ (call.options.hasDefault => ret = Returned(call.options.defaultValue, TRUE))

\* C3, amended: a call of a function that is not in the registry, at the top
\* level or nested, raises a TypeError (the read of a field of the missing
\* definition), which is no ExprRuntimeError: evalExpr lets it through as it
\* is, with or without a defaultValue.
C3_UnknownFunctionPropagates ==
    (pc = "done" /\ EvaluatesUnknownFunction(call.expr)) =>
        ret = Throw("TypeError", NoContext)

\* A nested call of an unknown function, evaluated with a defaultValue
C3_Witness ==
    /\ pc = "done"
    /\ call.options.hasDefault
    /\ call.expr = Arr(<<Str(nConcat), Arr(<<Str(nNope), Str(cOne)>>)>>)
    /\ ret = Throw("TypeError", NoContext)

\* The depth of nesting of an expression: 0 when no argument is an array
RECURSIVE DepthOf(_)
DepthOf(expr) ==
    IF Len(expr.v) >= 2 /\ IsArray(expr.v[2]) THEN 1 + DepthOf(expr.v[2]) ELSE 0

\* C10: the value of an expression whose head function casts its return value
\* (every built-in but `if`) is null or of the function's declared return type.
\* Checked on the calls without a defaultValue, where evalExpr returns the
\* value of the expression itself.
C10_ReturnTypeSound ==
    (/\ pc = "done"
     /\ ~call.options.hasDefault
     /\ ret.t = "ok"
     /\ ExprFunctions[HeadOf(call.expr).v].castReturnValue) =>
        ret.v.k \in {"null", ExprFunctions[HeadOf(call.expr).v].returns}

\* A nested expression whose value is a string made by the return cast
C10_Witness ==
    /\ pc = "done"
    /\ ~call.options.hasDefault
    /\ ret.t = "ok"
    /\ HeadOf(call.expr) = Str(nConcat)
    /\ DepthOf(call.expr) >= 1
    /\ HeadOf(call.expr.v[2]) = Str(nLessThan)
    /\ ret.v = Str(cFalse)

\* ------------------------------------------------- specification: `if` calls

cTRUE == <<"T", "R", "U", "E">>

cYes == <<"y", "e", "s">>

CondLits == {Str(cTrue), Str(cTRUE), Str(cFalse), Bool(TRUE), IntNum(1), Null}

BoolBinaryFns == {nEquals, nNotEquals, nGreaterThan, nGreaterThanEq, nLessThan, nLessThanEq}

\* Sub-expressions of declared return type boolean
BoolConds ==
    {Arr(<<Str(f), x, y>>) : f \in BoolBinaryFns, x \in {Str(cOne), IntNum(0), Str(nAppId)},
                             y \in {Str(cOne), IntNum(0), Str(nAppId)}}
    \cup {Arr(<<Str(f)>> \o args) : f \in {nAnd, nOr},
                                    args \in SeqsUpTo({Bool(TRUE), Str(cFalse)}, MaxArgs)}
    \cup {Arr(<<Str(nAnd), Arr(<<Str(nEquals), Str(cOne), Str(cOne)>>)>>),
          Arr(<<Str(nOr), Arr(<<Str(nLessThan), Str(cOne), IntNum(0)>>)>>)}

\* Branch values: literals, a sub-expression with a value and one that raises
Branches ==
    {Str(cYes), Str(cNull), IntNum(1), Bool(FALSE), Null,
     Arr(<<Str(nConcat), Str(cOne), IntNum(0)>>),
     Arr(<<Str(nAnd), Str(nAppId)>>)}

IfExprs ==
    {Arr(<<Str(nIf), c, a>>) : c \in CondLits \cup BoolConds, a \in Branches}
    \cup {Arr(<<Str(nIf), c, a, Str(cElse), b>>) :
            c \in CondLits \cup BoolConds, a \in Branches, b \in Branches}

InitIf ==
    /\ pc = "ready"
    /\ \E e \in IfExprs, o \in OptionsPool :
            call = EvalCall(e, [node |-> ALayoutNode, dataSources |-> FullDataSources], o)
    /\ ret = NotRun

NextIf == EvalExpr

SpecIf == InitIf /\ [][NextIf]_vars

\* The value of an argument as written, or as sub-evaluated when it is an array
SubValue(x) ==
    IF IsArray(x) THEN innerEvalExpr(withBlankPath(x, call.node, call.dataSources))
    ELSE Ok(x)

HasElse == Len(call.expr.v) = 5 /\ call.expr.v[4] = Str(cElse)

\* C7 as stated: `if` compares the condition exactly as written or
\* sub-evaluated, uncast, with the string "true".
C7_RawCondition ==
    (pc = "done" /\ ~call.options.hasDefault /\ ret.t = "ok") =>
        ret.v = IF IsStr(SubValue(call.expr.v[2]).v, cTrue) THEN SubValue(call.expr.v[3]).v
                ELSE IF Len(call.expr.v) = 5 THEN SubValue(call.expr.v[5]).v
                ELSE Null

\* C7, amended: the two branch values reach `if` as written or sub-evaluated
\* and the chosen one is returned uncast, but the condition is first cast to
\* string: the second argument is returned when that cast gives "true", else
\* the fourth argument if present, else null.
C7_CastCondition ==
    (pc = "done" /\ ~call.options.hasDefault /\ ret.t = "ok") =>
        ret.v = IF castValue(SubValue(call.expr.v[2]).v, "string", NoContext) = Ok(Str(cTrue))
                THEN SubValue(call.expr.v[3]).v
                ELSE IF Len(call.expr.v) = 5 THEN SubValue(call.expr.v[5]).v
                ELSE Null

\* The condition "TRUE" selects the second argument, the number 1, returned as
\* a number by a function whose declared return type is string
C7_Witness ==
    /\ pc = "done"
    /\ ~call.options.hasDefault
    /\ HasElse
    /\ call.expr.v[2] = Str(cTRUE)
    /\ call.expr.v[3] = IntNum(1)
    /\ ret = Returned(IntNum(1), FALSE)

BoolCond == IsArray(call.expr.v[2]) /\ call.expr.v[2] \in BoolConds

MaxConcatArgs == 3

cNu == <<"n", "u">>

cLl == <<"l", "l">>

cNULL == <<"N", "U", "L", "L">>

StrPool == {Str(cNu), Str(cLl), Str(cNULL), Str(cTRUE), Str(<<"a">>)}

InitConcat ==
    /\ pc = "ready"
    /\ \E args \in SeqsUpTo(StrPool, MaxConcatArgs), o \in OptionsPool :
            call = EvalCall(Arr(<<Str(nConcat)>> \o args),
                            [node |-> ALayoutNode, dataSources |-> FullDataSources], o)
    /\ ret = NotRun

NextConcat == EvalExpr

SpecConcat == InitConcat /\ [][NextConcat]_vars

\* The characters of the strings xs, in order
RECURSIVE Flat(_)
Flat(xs) == IF xs = <<>> THEN <<>> ELSE Head(xs).v \o Flat(Tail(xs))

\* A string argument as concat sees it: "null" in any letter case is dropped,
\* "true" and "false" in any letter case are lowercased.
CanonArg(x) ==
    IF toLowerCase(x.v) = cNull THEN Str(<<>>)
    ELSE IF toLowerCase(x.v) \in {cTrue, cFalse} THEN Str(toLowerCase(x.v))
    ELSE x

CanonArgs(xs) == [i \in DOMAIN xs |-> CanonArg(xs[i])]

\* C9 as stated: concat of string arguments is their join with an empty separator.
C9_PlainJoin ==
    (pc = "done" /\ ~call.options.hasDefault) =>
        ret = Returned(Str(Flat(Tail(call.expr.v))), FALSE)

\* C9, amended: concat joins, with an empty separator, its arguments as cast to
\* string ("null" in any letter case joins as the empty string, "true"/"false"
\* in any letter case are lowercased), and the joined text is cast to string
\* again: it is null when it reads "null" in any letter case, lowercased when
\* it reads "true"/"false" in any letter case; no arguments give "".
C9_JoinOfCastArgs ==
    (pc = "done" /\ ~call.options.hasDefault) =>
        LET joined == Flat(CanonArgs(Tail(call.expr.v)))
        IN  ret = Returned(IF toLowerCase(joined) = cNull THEN Null
                           ELSE IF toLowerCase(joined) \in {cTrue, cFalse}
                           THEN Str(toLowerCase(joined))
                           ELSE Str(joined), FALSE)

\* concat("nu", "ll") gives null, not the string "null"
C9_Witness ==
    /\ pc = "done"
    /\ ~call.options.hasDefault
    /\ call.expr = Arr(<<Str(nConcat), Str(cNu), Str(cLl)>>)
    /\ ret = Returned(Null, FALSE)

\* --------------------------------- specification: the validator of `if`

MaxRawArgs == 4

RawPool == {Str(cElse), Str(cTrue), Arr(<<Str(nEquals), Str(cOne), Str(cOne)>>)}

InitValidator ==
    /\ pc = "ready"
    /\ \E a \in SeqsUpTo(RawPool, MaxRawArgs) : call = [rawArgs |-> a]
    /\ ret = NotRun

\* The validator of `if` run on the raw arguments with an empty error context
ValidateIf ==
    /\ pc = "ready"
    /\ pc' = "done"
    /\ ret' = [t |-> "validated", errors |-> IfValidator(call.rawArgs, <<>>, <<>>)]
    /\ UNCHANGED call

NextValidator == ValidateIf

SpecValidator == InitValidator /\ [][NextValidator]_vars

ThirdIsElse == IsStr(At(call.rawArgs, 2), cElse)

\* C6 as stated: 2 raw arguments never give an error, 3 give one unless the
\* third is "else", 4 give none exactly when the third is "else".
C6_Validator ==
    pc = "done" =>
        /\ Len(call.rawArgs) = 2 => ret.errors = <<>>
        /\ Len(call.rawArgs) = 3 => (ret.errors = <<>> <=> ThirdIsElse)
        /\ Len(call.rawArgs) = 4 => (ret.errors = <<>> <=> ThirdIsElse)

\* C6, amended: 2 raw arguments never give an error, 3 always give one
\* (whatever the third is), 4 give none exactly when the third is "else".
C6_ValidatorThreeAlwaysFails ==
    pc = "done" =>
        /\ Len(call.rawArgs) = 2 => ret.errors = <<>>
        /\ Len(call.rawArgs) = 3 => ret.errors # <<>>
        /\ Len(call.rawArgs) = 4 => (ret.errors = <<>> <=> ThirdIsElse)

\* Three raw arguments, the third "else": one error, about the count
C6_Witness ==
    /\ pc = "done"
    /\ Len(call.rawArgs) = 3
    /\ ThirdIsElse
    /\ Len(ret.errors) = 1
    /\ ret.errors[1].path = <<>>

\* ----------------------------------------------------------------- scanner

\* The decimal names of the array indexes, as `${idx}` writes them
IdxName(idx) == IF idx < 10 THEN Digits[idx + 1] ELSE "many"

\* A path of the scanner is a sequence of legs; a leg is an object key followed
\* by the indexes appended to it as `[idx]`. dot-object reads path.join('.') by
\* turning every `[` into the separator, dropping every `]` and splitting at the
\* separator: the keys and indexes of all legs in order (keys hold no '.', '['
\* or ']'). The empty path joins to '' and splits to the one key ''.
RECURSIVE FlattenLegs(_)
FlattenLegs(path) == IF path = <<>> THEN <<>> ELSE Head(path) \o FlattenLegs(Tail(path))

pathKeys(path) == IF path = <<>> THEN <<"">> ELSE FlattenLegs(path)

\* `key in obj` and obj[key] for an object or an array
HasKey(obj, key) ==
    IF obj.k = "object" THEN \E i \in DOMAIN obj.v : obj.v[i][1] = key
    ELSE IF obj.k = "array" THEN \E i \in DOMAIN obj.v : IdxName(i - 1) = key
    ELSE FALSE

GetKey(obj, key) ==
    IF obj.k = "object" THEN obj.v[CHOOSE i \in DOMAIN obj.v : obj.v[i][1] = key][2]
    ELSE obj.v[CHOOSE i \in DOMAIN obj.v : IdxName(i - 1) = key]

\* dot.pick(pathString, obj), on the keys of the path
RECURSIVE pick(_, _)
pick(keys, obj) ==
    IF HasKey(obj, Head(keys))
    THEN IF Len(keys) = 1 THEN GetKey(obj, Head(keys))
         ELSE pick(Tail(keys), GetKey(obj, Head(keys)))
    ELSE Undefined

\* canBeExpression of the validation module: an array whose first element is
\* the name of a function
canBeExpression(input) == IsArray(input) /\ Len(input.v) >= 1 /\ IsFunction(input.v[1])

\* What the validation module accepts as an expression: a known function, the
\* number of arguments its definition allows (for `if`, what its validator
\* allows), and every nested array an expression itself.
RECURSIVE WellFormed(_)
WellFormed(input) ==
    /\ canBeExpression(input)
    /\ LET def == ExprFunctions[input.v[1].v]
           rawArgs == Tail(input.v)
       IN  /\ IF def.name = "if" THEN IfValidator(rawArgs, <<>>, <<>>) = <<>>
              ELSE IF def.lastArgSpreads THEN TRUE
              ELSE Len(rawArgs) = Len(def.args)
           /\ \A i \in DOMAIN rawArgs : IsArray(rawArgs[i]) => WellFormed(rawArgs[i])

\* asExpression of the validation module: the expression, or a validation failure
asExpression(input) ==
    IF WellFormed(input) THEN Ok(input) ELSE Throw("ValidationFailure", NoContext)

\* The result of a scan: like Ok and Throw, with the log of what the scan did
\* with each array it met ("call": evaluated with these options, "invalid":
\* taken as an expression and refused by asExpression, "data": recursed).
Logged(r, log) == [t |-> r.t, r |-> r, log |-> log]

LogEntry(kind, path, options) == [kind |-> kind, path |-> path, options |-> options]

\* evalExprInObjectCaller
evalExprInObjectCaller(expr, args, path) ==
    LET defaultValue == IF Truthy(args.defaults) THEN pick(pathKeys(path), args.defaults)
                        ELSE Undefined
        exprOptions == IF Truthy(args.defaults) /\ defaultValue.k # "undefined"
                       THEN WithDefault(defaultValue)
                       ELSE NoOptions
    IN  Logged(evalExpr(expr, args.node, args.dataSources, exprOptions),
               <<LogEntry("call", path, exprOptions)>>)

\* The decision of evalExprInObjectRecursive taken by shape alone, whether
\* or not a defaults map was given
evaluateAsExpressionByShape(input, args, path) == canBeExpression(input)

\* The decision of evalExprInObjectRecursive on an array: an expression or data
evaluateAsExpression(input, args, path) ==
    IF Truthy(args.defaults)
    THEN pick(pathKeys(path), args.defaults).k # "undefined"
    ELSE canBeExpression(input)

RECURSIVE evalExprInObjectRecursive(_, _, _)
RECURSIVE MapItems(_, _, _, _, _, _, _)
RECURSIVE MapKeys(_, _, _, _, _, _)

\* input.map(...) from index idx on; the first throw ends it
MapItems(items, idx, args, newPath, lastLeg, out, log) ==
    IF idx >= Len(items) THEN Logged(Ok(Arr(out)), log)
    ELSE LET r == evalExprInObjectRecursive(items[idx + 1], args,
                        Append(newPath, Append(lastLeg, IdxName(idx))))
         IN  IF r.t = "throw" THEN Logged(r.r, log \o r.log)
             ELSE MapItems(items, idx + 1, args, newPath, lastLeg,
                           Append(out, r.r.v), log \o r.log)

\* for (const key of Object.keys(input)) from the i-th key on
MapKeys(entries, i, args, path, out, log) ==
    IF i > Len(entries) THEN Logged(Ok(Obj(out)), log)
    ELSE LET r == evalExprInObjectRecursive(entries[i][2], args,
                        Append(path, <<entries[i][1]>>))
         IN  IF r.t = "throw" THEN Logged(r.r, log \o r.log)
             ELSE MapKeys(entries, i + 1, args, path,
                          Append(out, <<entries[i][1], r.r.v>>), log \o r.log)

evalExprInObjectRecursive(input, args, path) ==
    IF TypeOf(input) # "object" THEN Logged(Ok(input), <<>>)
    ELSE IF IsArray(input)
    THEN LET expression == IF evaluateAsExpression(input, args, path)
                           THEN asExpression(input)
                           ELSE Ok(Undefined)
             lastLeg == IF path = <<>> THEN <<"">> ELSE path[Len(path)]
             newPath == IF path = <<>> THEN <<>> ELSE SubSeq(path, 1, Len(path) - 1)
         IN  IF expression.t = "throw"
             THEN Logged(expression, <<LogEntry("invalid", path, NoOptions)>>)
             ELSE IF Truthy(expression.v)
             THEN evalExprInObjectCaller(expression.v, args, path)
             ELSE MapItems(input.v, 0, args, newPath, lastLeg, <<>>,
                           <<LogEntry("data", path, NoOptions)>>)
    \* Object.keys(null)
    ELSE IF input.k = "null" THEN Logged(Throw("TypeError", NoContext), <<>>)
    ELSE MapKeys(input.v, 1, args, path, <<>>, <<>>)

evalExprInObj(args) ==
    IF ~Truthy(args.input) THEN Logged(Ok(args.input), <<>>)
    ELSE evalExprInObjectRecursive(args.input, args, <<>>)

\* ------------------------------------------- specification: evalExprInObj

MaxList == 2

Scalars == {Bool(TRUE), Str(cYes), Null}

\* Arrays of plain data
PlainLists == {Arr(items) : items \in SeqsUpTo(Scalars, MaxList)}

eEqualsOneOne == Arr(<<Str(nEquals), Str(cOne), Str(cOne)>>)

\* Arrays shaped like expressions: two that evaluate, one that raises an
\* ExprRuntimeError with a context, one with too few arguments, one nested in
\* an array of data
ExprLists ==
    {eEqualsOneOne,
     Arr(<<Str(nDataModel), Str(nAppId)>>),
     Arr(<<Str(nAnd), Str(nAppId)>>),
     Arr(<<Str(nEquals), Str(cOne)>>),
     Arr(<<Str(cYes), eEqualsOneOne>>)}

Vals == Scalars \cup PlainLists \cup ExprLists

\* The inputs of the scanner: a component with a field `hidden` and a group
\* `edit` with a field `addButton`, or a bare value
Trees ==
    {Obj(<<<<"hidden", x>>, <<"edit", Obj(<<<<"addButton", y>>>>)>>>>) : x \in Vals, y \in Vals}
    \cup Vals

\* No defaults, the defaults of a component, the defaults of a group
DefaultsPool ==
    {Undefined,
     Obj(<<<<"hidden", Bool(FALSE)>>>>),
     Obj(<<<<"hidden", Bool(FALSE)>>, <<"edit", Obj(<<<<"addButton", Bool(TRUE)>>>>)>>>>)}

InitScan ==
    /\ pc = "ready"
    /\ \E i \in Trees, d \in DefaultsPool :
            call = [input |-> i, node |-> ALayoutNode, dataSources |-> FullDataSources,
                    defaults |-> d]
    /\ ret = NotRun

EvalExprInObj ==
    /\ pc = "ready"
    /\ pc' = "done"
    /\ ret' = evalExprInObj(call)
    /\ UNCHANGED call

NextScan == EvalExprInObj

SpecScan == InitScan /\ [][NextScan]_vars

\* No array of the tree, at any depth, is shaped like an expression
RECURSIVE ExprFree(_)
ExprFree(x) ==
    IF x.k = "array"
    THEN ~canBeExpression(x) /\ \A i \in DOMAIN x.v : ExprFree(x.v[i])
    ELSE IF x.k = "object" THEN \A i \in DOMAIN x.v : ExprFree(x.v[i][2])
    ELSE TRUE

\* C4: scanning a tree that holds no expression (null leaves allowed at any
\* depth) raises nothing and returns a value deep-equal to the tree. Stated
\* for the scans without a defaults map, where the shape alone decides.
C4_ScanOfPlainData ==
    (pc = "done" /\ ~Truthy(call.defaults) /\ ExprFree(call.input)) =>
        ret.t = "ok" /\ ret.r.v = call.input

\* C5: with a defaults map, an array at path p is taken as an expression exactly
\* when the map has a defined entry at p, and is then evaluated with that entry
\* as its default value; every other array is recursed into as data.
C5_DefaultsDecide ==
    (pc = "done" /\ Truthy(call.defaults)) =>
        \A i \in DOMAIN ret.log :
            LET entry == ret.log[i]
                default == pick(pathKeys(entry.path), call.defaults)
            IN  /\ entry.kind = "data" => default.k = "undefined"
                /\ entry.kind = "invalid" => default.k # "undefined"
                /\ entry.kind = "call" =>
                      default.k # "undefined" /\ entry.options = WithDefault(default)

\* With the defaults of a component, `hidden` holds an expression that is
\* evaluated with the default false, and edit.addButton holds an array shaped
\* like an expression that is kept as data
C5_Witness ==
    /\ pc = "done"
    /\ call.defaults = Obj(<<<<"hidden", Bool(FALSE)>>>>)
    /\ call.input = Obj(<<<<"hidden", eEqualsOneOne>>,
                          <<"edit", Obj(<<<<"addButton", eEqualsOneOne>>>>)>>>>)
    /\ ret.t = "ok"
    /\ ret.r.v = Obj(<<<<"hidden", Bool(TRUE)>>,
                       <<"edit", Obj(<<<<"addButton", eEqualsOneOne>>>>)>>>>)
    /\ ret.log = <<LogEntry("call", <<<<"hidden">>>>, WithDefault(Bool(FALSE))),
                   LogEntry("data", <<<<"edit">>, <<"addButton">>>>, NoOptions)>>

====
